---------------------------- MODULE Spec2Model ----------------------------
(***************************************************************************)
(* format-blocks: a combinator library for pretty-printing under a         *)
(* two-margin cost model.  The model covers the block hierarchy of         *)
(* format_blocks/blocks.py and format_blocks/extras.py, the memoised       *)
(* OptLayout / Render of format_blocks/base.py and Options.Check.          *)
(*                                                                         *)
(* format_blocks/support.py (Solution, SolutionFactory, VSumSolution,      *)
(* MinSolution, Layout, LayoutElement, Console) is not part of the source  *)
(* tree at hand; its operators are modelled from sections 3 and 4.1 of the *)
(* specification.  Costs are integers (the code uses floats; the model     *)
(* scales them).                                                           *)
(***************************************************************************)
EXTENDS Integers, Sequences, FiniteSets, TLC

\* blocks: the block objects constructed so far, in order of construction
\*         (a block is named by its index; its elements are earlier blocks).
\* nid:    the number of Solution objects handed out by blocks so far.
\* doLog:  per block, the DoOptLayout invocations made on it (history).
\* ncalls: the number of public OptLayout / Render calls made.
\* last:   the outcome of the last operation.
VARIABLES blocks, nid, doLog, ncalls, last

vars == <<blocks, nid, doLog, ncalls, last>>

\* Python's None where a Solution is expected (a continuation, a memo key):
\* a record, so that it compares with Solutions.
None ==
  [id |-> 0, knots |-> <<>>, spans |-> <<>>, intercepts |-> <<>>,
   gradients |-> <<>>, layouts |-> <<>>]

\* ------------------------------------------------------------------ bounds
\* Heap size reachable through the constructor calls.
MaxBlocks == 2
\* Longest element list handed to a composite constructor call.
MaxElems == 2
\* Leaves of a block tree laid out.
MaxLeaves == 2
\* Public OptLayout / Render calls made on one heap.
MaxCalls == 2
\* Start columns at which cost functions are compared (past every knot and
\* crossing the margins of the Options used give rise to).
MaxCol == 12

\* Blocks obtained by extended from a constructed composite.
MaxExtended == 1

\* ----------------------------------------------------------- small helpers
Range(f) == {f[i] : i \in DOMAIN f}

Max2(a, b) == IF a >= b THEN a ELSE b

SetMax(S) == CHOOSE x \in S : \A y \in S : y <= x

SetMin(S) == CHOOSE x \in S : \A y \in S : x <= y

\* F applied to the value of v, with v evaluated once.
Let(v, F(_)) == CHOOSE x \in {F(r) : r \in {v}} : TRUE

RECURSIVE SortedSeq(_)
SortedSeq(S) ==
  IF S = {} THEN <<>>
  ELSE Let(SetMin(S), LAMBDA m : <<m>> \o SortedSeq(S \ {m}))

RECURSIVE Spaces(_)
Spaces(n) == IF n <= 0 THEN "" ELSE " " \o Spaces(n - 1)

\* ------------------------------------------------- LayoutElement / Layout
\* spec 3.2: String(s) | NewLine(indent)
String(s) == [t |-> "String", s |-> s, indent |-> 0]

NewLine(indent) == [t |-> "NewLine", s |-> "", indent |-> indent]

\* spec 4.1 v_sum: the layouts of successive lines joined by newlines; every
\* line after the first begins at column 0.
RECURSIVE LayoutStack(_)
LayoutStack(layouts) ==
  IF Len(layouts) = 1 THEN layouts[1]
  ELSE layouts[1] \o <<NewLine(0)>> \o LayoutStack(Tail(layouts))

\* spec 4.9: String(s) appends s; NewLine(i) emits "\n" then i spaces.
RECURSIVE PrintLayout(_)
PrintLayout(layout) ==
  IF layout = <<>> THEN ""
  ELSE (IF layout[1].t = "String" THEN layout[1].s
        ELSE "\n" \o Spaces(layout[1].indent)) \o PrintLayout(Tail(layout))

\* ---------------------------------------------------------------- Solution
\* spec 3.4: five parallel sequences; id stands for the object's identity
\* (0: not yet handed out by a block).
Solution(knots, spans, intercepts, gradients, layouts) ==
  [id |-> 0, knots |-> knots, spans |-> spans, intercepts |-> intercepts,
   gradients |-> gradients, layouts |-> layouts]

\* Index of the segment that covers column k.
Seg(s, k) == SetMax({i \in DOMAIN s.knots : s.knots[i] <= k} \cup {1})

ValueAt(s, k) ==
  LET i == Seg(s, k) IN s.intercepts[i] + s.gradients[i] * (k - s.knots[i])

SpanAt(s, k) == s.spans[Seg(s, k)]

GradientAt(s, k) == s.gradients[Seg(s, k)]

LayoutAt(s, k) == s.layouts[Seg(s, k)]

\* spec 4.1 plus_const
PlusConst(s, c) ==
  [s EXCEPT !.id = 0,
            !.intercepts = [i \in DOMAIN s.intercepts |-> s.intercepts[i] + c]]

\* spec 4.1 with_rest_of_line: a knot wherever self or the shifted rest has
\* one; at each knot the two functions are added, rest read at k + span.
WithRestOfLine(self, rest) ==
  IF rest = None THEN self
  ELSE
    LET top  == SetMax(Range(self.knots) \cup Range(rest.knots))
        cols == {k \in 0..top :
                   \/ k \in Range(self.knots)
                   \/ (k + SpanAt(self, k)) \in Range(rest.knots)}
        at(k) == k + SpanAt(self, k)
    IN Let(SortedSeq(cols), LAMBDA ks :
         Solution(
           ks,
           [i \in DOMAIN ks |->
              SpanAt(self, ks[i]) + SpanAt(rest, at(ks[i]))],
           [i \in DOMAIN ks |->
              ValueAt(self, ks[i]) + ValueAt(rest, at(ks[i]))],
           [i \in DOMAIN ks |->
              GradientAt(self, ks[i]) + GradientAt(rest, at(ks[i]))],
           [i \in DOMAIN ks |->
              LayoutAt(self, ks[i]) \o LayoutAt(rest, at(ks[i]))]))

RECURSIVE SumAtZero(_)
SumAtZero(solns) ==
  IF solns = <<>> THEN 0 ELSE ValueAt(solns[1], 0) + SumAtZero(Tail(solns))

\* spec 4.1 v_sum: the knots and slopes of the first line; the later lines
\* start at column 0 and add their value there; the span is the last line's.
VSumSolution(solns) ==
  LET first == solns[1]
      lastS == solns[Len(solns)]
      extra == SumAtZero(Tail(solns))
      below == [i \in 1..(Len(solns) - 1) |-> LayoutAt(solns[i + 1], 0)]
  IN Solution(
       first.knots,
       [i \in DOMAIN first.knots |->
          IF Len(solns) = 1 THEN first.spans[i] ELSE SpanAt(lastS, 0)],
       [i \in DOMAIN first.knots |-> first.intercepts[i] + extra],
       first.gradients,
       [i \in DOMAIN first.knots |->
          LayoutStack(<<first.layouts[i]>> \o below)])

\* Smallest index of a candidate whose value at column k is least
\* (spec 4.1 min_solution: ties go to the earlier candidate).
ArgMin(solns, k) ==
  CHOOSE m \in DOMAIN solns :
    /\ \A i \in DOMAIN solns : ValueAt(solns[m], k) <= ValueAt(solns[i], k)
    /\ \A i \in 1..(m - 1) : ValueAt(solns[i], k) > ValueAt(solns[m], k)

\* Columns past k at which candidate i takes over from the current minimum
\* m on a stretch where both are linear: the first integer column where i
\* is strictly below m, or level with it when i comes earlier in the input.
CrossAfter(solns, m, k) ==
  {k + (IF i < m
        THEN ((ValueAt(solns[i], k) - ValueAt(solns[m], k))
               + (GradientAt(solns[m], k) - GradientAt(solns[i], k)) - 1)
             \div (GradientAt(solns[m], k) - GradientAt(solns[i], k))
        ELSE ((ValueAt(solns[i], k) - ValueAt(solns[m], k))
             \div (GradientAt(solns[m], k) - GradientAt(solns[i], k))) + 1) :
     i \in {j \in DOMAIN solns :
              GradientAt(solns[j], k) < GradientAt(solns[m], k)}}

KnotsAfter(solns, k) ==
  {c \in UNION {Range(solns[i].knots) : i \in DOMAIN solns} : c > k}

\* The next column the sweep of min_solution stops at after k, where m is
\* the minimum: a crossing inside the current interval, else the next knot
\* of any candidate; -1 when neither exists.
NextStop(solns, m, k) ==
  LET knots == KnotsAfter(solns, k)
      cross == IF knots = {} THEN CrossAfter(solns, m, k)
               ELSE {c \in CrossAfter(solns, m, k) : c < SetMin(knots)}
  IN IF cross # {} THEN SetMin(cross)
     ELSE IF knots # {} THEN SetMin(knots)
     ELSE -1

\* The sweep of spec 4.1 min_solution from column k on; piece is the
\* <<candidate, segment>> the last emitted knot came from.
RECURSIVE MinSweep(_, _, _, _)
MinSweep(solns, k, piece, acc) ==
  Let(ArgMin(solns, k), LAMBDA m :
  Let(NextStop(solns, m, k), LAMBDA next :
    LET here == <<m, Seg(solns[m], k)>>
        acc2 == IF here = piece THEN acc
                ELSE Append(acc, [knot |-> k,
                                  span |-> SpanAt(solns[m], k),
                                  intercept |-> ValueAt(solns[m], k),
                                  gradient |-> GradientAt(solns[m], k),
                                  layout |-> LayoutAt(solns[m], k)])
    IN IF next = -1 THEN acc2 ELSE MinSweep(solns, next, here, acc2)))

\* spec 4.1 min_solution: the lower envelope of the candidates.
MinSolution(solns) ==
  LET e == MinSweep(solns, 0, <<0, 0>>, <<>>)
  IN Solution([i \in DOMAIN e |-> e[i].knot],
              [i \in DOMAIN e |-> e[i].span],
              [i \in DOMAIN e |-> e[i].intercept],
              [i \in DOMAIN e |-> e[i].gradient],
              [i \in DOMAIN e |-> e[i].layout])

\* spec 4.1 SolutionFactory: append enforces strictly increasing knots and
\* non-decreasing slopes; ok is FALSE once an append broke either.
FactoryAppend(sf, knot, span, intercept, gradient, layout) ==
  [ok |-> /\ sf.ok
          /\ \/ sf.e = <<>>
             \/ /\ knot > sf.e[Len(sf.e)].knot
                /\ gradient >= sf.e[Len(sf.e)].gradient,
   e  |-> Append(sf.e, [knot |-> knot, span |-> span, intercept |-> intercept,
                        gradient |-> gradient, layout |-> layout])]

SolutionFactory == [ok |-> TRUE, e |-> <<>>]

MkSolution(sf) ==
  Solution([i \in DOMAIN sf.e |-> sf.e[i].knot],
           [i \in DOMAIN sf.e |-> sf.e[i].span],
           [i \in DOMAIN sf.e |-> sf.e[i].intercept],
           [i \in DOMAIN sf.e |-> sf.e[i].gradient],
           [i \in DOMAIN sf.e |-> sf.e[i].layout])

\* ----------------------------------------------------------------- Options
\* base.py Options: the dataclass fields (break_element_lines is left at its
\* default, None, throughout).
Options(m0, c0, m1, c1, bc, lp) ==
  [margin_0 |-> m0, margin_0_cost |-> c0, margin_1 |-> m1,
   margin_1_cost |-> c1, break_cost |-> bc, late_pack_cost |-> lp]

\* Options.Check comparing the margins strictly.
Check_strict(o) ==
  IF ~(o.margin_0 >= 0) THEN "margin_0"
  ELSE IF ~(o.margin_1 > o.margin_0) THEN "margin_1"
  ELSE IF ~(o.margin_0_cost >= 0) THEN "margin_0_cost"
  ELSE IF ~(o.margin_1_cost >= 0) THEN "margin_1_cost"
  ELSE IF ~(o.break_cost >= 0) THEN "break_cost"
  ELSE IF ~(o.late_pack_cost >= 0) THEN "late_pack_cost"
  ELSE "ok"

\* base.py Options.Check: the asserts in order; the name of the first that
\* fails is the one the ValueError carries, "ok" when none fails.
Check(o) ==
  IF ~(o.margin_0 >= 0) THEN "margin_0"
  ELSE IF ~(o.margin_1 >= o.margin_0) THEN "margin_1"
  ELSE IF ~(o.margin_0_cost >= 0) THEN "margin_0_cost"
  ELSE IF ~(o.margin_1_cost >= 0) THEN "margin_1_cost"
  ELSE IF ~(o.break_cost >= 0) THEN "break_cost"
  ELSE IF ~(o.late_pack_cost >= 0) THEN "late_pack_cost"
  ELSE "ok"

\* ------------------------------------------------------------ leaf blocks
\* TextBlock.DoOptLayout attaching an empty layout when the text is at least
\* margin_1 long.
TextDoOptLayout_nolayout(text, rest_of_line, o) ==
  LET span   == Len(text)
      layout == <<String(text)>>
      s == IF span >= o.margin_1
           THEN Solution(<<0>>, <<span>>,
                         <<(span - o.margin_0) * o.margin_0_cost
                            + (span - o.margin_1) * o.margin_1>>,
                         <<o.margin_0_cost + o.margin_1_cost>>,
                         << <<>> >>)
           ELSE IF span >= o.margin_0
           THEN Solution(<<0, o.margin_1 - span>>, <<span, span>>,
                         <<(span - o.margin_0) * o.margin_0_cost,
                           (o.margin_1 - o.margin_0) * o.margin_0_cost>>,
                         <<o.margin_0_cost,
                           o.margin_0_cost + o.margin_1_cost>>,
                         <<layout, layout>>)
           ELSE Solution(<<0, o.margin_0 - span, o.margin_1 - span>>,
                         <<span, span, span>>,
                         <<0, 0, (o.margin_1 - o.margin_0) * o.margin_0_cost>>,
                         <<0, o.margin_0_cost,
                           o.margin_0_cost + o.margin_1_cost>>,
                         <<layout, layout, layout>>)
  IN WithRestOfLine(s, rest_of_line)

\* blocks.py TextBlock.DoOptLayout: 1, 2 or 3 knots by how the text's length
\* compares with the margins, then composed with the continuation.
TextDoOptLayout(text, rest_of_line, o) ==
  LET span   == Len(text)
      layout == <<String(text)>>
      s == IF span >= o.margin_1
           THEN Solution(<<0>>, <<span>>,
                         <<(span - o.margin_0) * o.margin_0_cost
                            + (span - o.margin_1) * o.margin_1>>,
                         <<o.margin_0_cost + o.margin_1_cost>>,
                         <<layout>>)
           ELSE IF span >= o.margin_0
           THEN Solution(<<0, o.margin_1 - span>>, <<span, span>>,
                         <<(span - o.margin_0) * o.margin_0_cost,
                           (o.margin_1 - o.margin_0) * o.margin_0_cost>>,
                         <<o.margin_0_cost,
                           o.margin_0_cost + o.margin_1_cost>>,
                         <<layout, layout>>)
           ELSE Solution(<<0, o.margin_0 - span, o.margin_1 - span>>,
                         <<span, span, span>>,
                         <<0, 0, (o.margin_1 - o.margin_0) * o.margin_0_cost>>,
                         <<0, o.margin_0_cost,
                           o.margin_0_cost + o.margin_1_cost>>,
                         <<layout, layout, layout>>)
  IN WithRestOfLine(s, rest_of_line)

\* blocks.py VerbBlock.DoOptLayout, lines 338-343: the verbatim layout.
RECURSIVE VerbLayout(_, _, _)
VerbLayout(lines, i, first_nl) ==
  IF i > Len(lines) THEN <<>>
  ELSE (IF i > 1 \/ first_nl THEN <<NewLine(0)>> ELSE <<>>)
       \o <<String(lines[i])>> \o VerbLayout(lines, i + 1, first_nl)

\* blocks.py VerbBlock.DoOptLayout: a span-0 solution built through the
\* factory; the continuation is not used.
VerbDoOptLayout(lines, first_nl, rest_of_line, o) ==
  LET layout == VerbLayout(lines, 1, first_nl)
      span   == 0
      sf0 == SolutionFactory
      sf1 == IF o.margin_0 > 0
             THEN FactoryAppend(sf0, 0, span, 0, 0, layout) ELSE sf0
      sf2 == FactoryAppend(sf1, o.margin_0 - span, span, 0,
                           o.margin_0_cost, layout)
      sf3 == FactoryAppend(sf2, o.margin_1 - span, span,
                           (o.margin_1 - o.margin_0) * o.margin_0_cost,
                           o.margin_0_cost + o.margin_1_cost, layout)
  IN [ok |-> sf3.ok, s |-> MkSolution(sf3)]

\* ------------------------------------------------------------------ blocks
\* The value of an Optional[str] parameter that was left None.
NoneStr == "<None>"

\* A block object: the attributes set by the constructors of blocks.py and
\* extras.py (those a kind does not have keep a default), and the memo
\* layout_cache of base.py LayoutBlock.__init__, keyed by the identity of the
\* continuation (0: None).
Block(kind, is_breaking) ==
  [kind |-> kind, is_breaking |-> is_breaking, text |-> "", lines |-> <<>>,
   first_nl |-> FALSE, elements |-> <<>>, break_mult |-> 1, sep |-> " ",
   prefix |-> NoneStr, joiner |-> " ", join_breaking |-> FALSE,
   layout_cache |-> <<>>]

\* blocks.py TextBlock.__init__
TextBlock(text, is_breaking) ==
  [Block("Text", is_breaking) EXCEPT !.text = text]

\* blocks.py VerbBlock.__init__
VerbBlock(lines, is_breaking, first_nl) ==
  [Block("Verb", is_breaking) EXCEPT !.lines = lines, !.first_nl = first_nl]

\* An element handed to a composite constructor that is not a LayoutBlock.
NotABlock == 0

\* CompositeLayoutBlock.__init__ without the test for an empty element list.
CompositeCheck_noempty(heap, elements) ==
  IF \E i \in DOMAIN elements : elements[i] \notin DOMAIN heap
  THEN "TypeError"
  ELSE "ok"

\* CompositeLayoutBlock.__init__ raising BlockUsageError from the isinstance
\* test as well.
CompositeCheck_usage(heap, elements) ==
  IF elements = <<>> THEN "BlockUsageError"
  ELSE IF \E i \in DOMAIN elements : elements[i] \notin DOMAIN heap
  THEN "BlockUsageError"
  ELSE "ok"

\* blocks.py CompositeLayoutBlock.__init__: the error raised, "ok" if none.
CompositeCheck(heap, elements) ==
  IF elements = <<>> THEN "BlockUsageError"
  ELSE IF \E i \in DOMAIN elements : elements[i] \notin DOMAIN heap
  THEN "TypeError"
  ELSE "ok"

\* blocks.py CompositeLayoutBlock.__init__, lines 108-110: is_breaking is
\* that of the last element.
CompositeLayoutBlock(heap, kind, elements) ==
  [Block(kind, elements # <<>> /\ heap[elements[Len(elements)]].is_breaking)
     EXCEPT !.elements = elements]

\* blocks.py LineBlock.__init__
LineBlock(heap, elements) == CompositeLayoutBlock(heap, "Line", elements)

\* blocks.py ChoiceBlock.__init__
ChoiceBlock(heap, elements) == CompositeLayoutBlock(heap, "Choice", elements)

\* blocks.py StackBlock.__init__ (MultBreakBlock.__init__)
StackBlock(heap, elements, break_mult) ==
  [CompositeLayoutBlock(heap, "Stack", elements)
     EXCEPT !.break_mult = break_mult]

\* blocks.py WrapBlock.__init__
WrapBlock(heap, elements, sep, break_mult, prefix) ==
  [CompositeLayoutBlock(heap, "Wrap", elements)
     EXCEPT !.break_mult = break_mult, !.sep = sep, !.prefix = prefix]

\* extras.py JoinedLineBlock.__init__
JoinedLineBlock(heap, elements, joiner, join_breaking) ==
  [CompositeLayoutBlock(heap, "JoinedLine", elements)
     EXCEPT !.joiner = joiner, !.join_breaking = join_breaking]

\* --------------------------------------------------------------- OptLayout
\* The memo key of a continuation: its identity.
KeyOf(rest_of_line) == rest_of_line.id

Put(cache, key, s) ==
  [k \in (DOMAIN cache) \cup {key} |-> IF k = key THEN s ELSE cache[k]]

\* The evaluation context threaded through a layout computation: the heap
\* (with the memos), the identities handed out, the record of DoOptLayout
\* invocations, and whether an internal invariant has aborted the call.
Ctx(b, n, l) == [blocks |-> b, nid |-> n, log |-> l, err |-> FALSE]

\* LineBlock.DoOptLayout opening a new element-line after a breaking last
\* element as well.
RECURSIVE ElementLines_last(_, _, _, _)
ElementLines_last(heap, elements, i, lines) ==
  IF i > Len(elements) THEN lines
  ELSE LET cur == [lines EXCEPT ![Len(lines)] = Append(@, elements[i])]
       IN ElementLines_last(heap, elements, i + 1,
            IF heap[elements[i]].is_breaking
            THEN Append(cur, <<>>) ELSE cur)

\* blocks.py LineBlock.DoOptLayout, lines 135-140: a new element-line after
\* every breaking element but the last.
RECURSIVE ElementLines(_, _, _, _)
ElementLines(heap, elements, i, lines) ==
  IF i > Len(elements) THEN lines
  ELSE LET cur == [lines EXCEPT ![Len(lines)] = Append(@, elements[i])]
       IN ElementLines(heap, elements, i + 1,
            IF i < Len(elements) /\ heap[elements[i]].is_breaking
            THEN Append(cur, <<>>) ELSE cur)

\* CompositeOptLayout appending the joiner after every element but the last,
\* whether or not the element is breaking.
RECURSIVE Joined_always(_, _, _, _, _)
Joined_always(heap, elements, j, join_breaking, i) ==
  IF i = Len(elements) THEN <<elements[i]>>
  ELSE <<elements[i], j>>
       \o Joined_always(heap, elements, j, join_breaking, i + 1)

\* extras.py JoinedLineBlock.CompositeOptLayout, lines 123-129: the elements
\* with the joiner block j after each that is non-breaking (or after each,
\* with join_breaking).
RECURSIVE Joined(_, _, _, _, _)
Joined(heap, elements, j, join_breaking, i) ==
  IF i = Len(elements) THEN <<elements[i]>>
  ELSE <<elements[i]>>
       \o (IF ~heap[elements[i]].is_breaking \/ join_breaking
           THEN <<j>> ELSE <<>>)
       \o Joined(heap, elements, j, join_breaking, i + 1)

RECURSIVE OptLayout(_, _, _, _)
RECURSIVE DoOptLayout(_, _, _, _)
RECURSIVE LineFold(_, _, _, _, _)
RECURSIVE LinesFold(_, _, _, _, _, _)
RECURSIVE EachOptLayout(_, _, _, _, _, _)

\* LayoutBlock.OptLayout without the membership test: every call computes
\* and stores.
OptLayout_recompute(h, b, rest_of_line, o) ==
  IF h.err THEN [h |-> h, s |-> None]
  ELSE Let(DoOptLayout(h, b, rest_of_line, o), LAMBDA r :
         IF r.h.err THEN r
         ELSE [h |-> [r.h EXCEPT !.blocks[b].layout_cache =
                                    Put(@, KeyOf(rest_of_line), r.s)],
               s |-> r.s])

\* base.py LayoutBlock.OptLayout: the memo; DoOptLayout on a miss only.  An
\* exception raised below leaves before the store.
OptLayout(h, b, rest_of_line, o) ==
  IF h.err THEN [h |-> h, s |-> None]
  ELSE IF KeyOf(rest_of_line) \notin DOMAIN h.blocks[b].layout_cache
  THEN Let(DoOptLayout(h, b, rest_of_line, o), LAMBDA r :
         IF r.h.err THEN r
         ELSE [h |-> [r.h EXCEPT !.blocks[b].layout_cache =
                                    Put(@, KeyOf(rest_of_line), r.s)],
               s |-> r.s])
  ELSE [h |-> h, s |-> h.blocks[b].layout_cache[KeyOf(rest_of_line)]]

\* blocks.py LineBlock.DoOptLayout, lines 148-149: one element-line, folded
\* from its last element to its first.
LineFold(h, ln, j, acc, o) ==
  IF j = 0 THEN [h |-> h, s |-> acc]
  ELSE Let(OptLayout(h, ln[j], acc, o), LAMBDA r :
         LineFold(r.h, ln, j - 1, r.s, o))

\* blocks.py LineBlock.DoOptLayout, lines 145-150: every element-line but the
\* last against None, the last against the continuation.
LinesFold(h, lines, i, rest_of_line, o, solns) ==
  IF i > Len(lines) THEN [h |-> h, solns |-> solns]
  ELSE Let(LineFold(h, lines[i], Len(lines[i]),
                    IF i < Len(lines) THEN None ELSE rest_of_line, o),
           LAMBDA r :
             LinesFold(r.h, lines, i + 1, rest_of_line, o,
                       Append(solns, r.s)))

\* [e.OptLayout(rests[i], options) for e in elements], left to right.
EachOptLayout(h, elements, i, rests, o, solns) ==
  IF i > Len(elements) THEN [h |-> h, solns |-> solns]
  ELSE Let(OptLayout(h, elements[i], rests[i], o), LAMBDA r :
         EachOptLayout(r.h, elements, i + 1, rests, o, Append(solns, r.s)))

\* blocks.py LineBlock.DoOptLayout
LineDoOptLayout(h, elements, rest_of_line, o) ==
  Let(ElementLines(h.blocks, elements, 1, << <<>> >>), LAMBDA element_lines :
  Let(LinesFold(h, element_lines, 1, rest_of_line, o, <<>>), LAMBDA r :
    [h |-> r.h,
     s |-> IF r.h.err THEN None
           ELSE PlusConst(
                  VSumSolution(SelectSeq(r.solns, LAMBDA x : x # None)),
                  o.break_cost * (Len(r.solns) - 1))]))

\* ChoiceBlock.DoOptLayout returning its first child's solution instead of
\* the minimum.
ChoiceDoOptLayout_first(h, elements, rest_of_line, o) ==
  Let(EachOptLayout(h, elements, 1,
                    [i \in DOMAIN elements |-> rest_of_line], o, <<>>),
      LAMBDA r :
        [h |-> r.h, s |-> IF r.h.err THEN None ELSE r.solns[1]])

\* blocks.py ChoiceBlock.DoOptLayout
ChoiceDoOptLayout(h, elements, rest_of_line, o) ==
  Let(EachOptLayout(h, elements, 1,
                    [i \in DOMAIN elements |-> rest_of_line], o, <<>>),
      LAMBDA r :
        [h |-> r.h, s |-> IF r.h.err THEN None ELSE MinSolution(r.solns)])

\* StackBlock.DoOptLayout charging break_cost without the break_mult factor.
StackDoOptLayout_nomult(h, elements, break_mult, rest_of_line, o) ==
  Let(EachOptLayout(h, elements, 1,
        [i \in DOMAIN elements |->
           IF i < Len(elements) THEN None ELSE rest_of_line], o, <<>>),
      LAMBDA r :
        [h |-> r.h,
         s |-> IF r.h.err THEN None
               ELSE PlusConst(VSumSolution(r.solns),
                              o.break_cost * Max2(Len(elements) - 1, 0))])

\* blocks.py StackBlock.DoOptLayout
StackDoOptLayout(h, elements, break_mult, rest_of_line, o) ==
  Let(EachOptLayout(h, elements, 1,
        [i \in DOMAIN elements |->
           IF i < Len(elements) THEN None ELSE rest_of_line], o, <<>>),
      LAMBDA r :
        [h |-> r.h,
         s |-> IF r.h.err THEN None
               ELSE PlusConst(VSumSolution(r.solns),
                              o.break_cost * break_mult
                                * Max2(Len(elements) - 1, 0))])

\* The loop of WrapBlock.DoOptLayout going on past a breaking element.
RECURSIVE WrapLine_nostop(_, _, _, _, _, _)
WrapLine_nostop(w, wrap, j, line_layout, last_breaking, solutions_i) ==
  IF j > w.n - 1
  THEN Append(solutions_i, WithRestOfLine(line_layout, w.rest_of_line))
  ELSE Let(VSumSolution(<<line_layout, wrap[j + 1]>>), LAMBDA full_soln :
       Let(Append(solutions_i,
                  PlusConst(full_soln,
                            w.o.break_cost * w.break_mult
                              + w.o.late_pack_cost * (w.n - (j - 1)))),
           LAMBDA sols :
             Let(WithRestOfLine(line_layout,
                   WithRestOfLine(w.sep_layout, w.elt_layouts[j + 1])),
                 LAMBDA next_layout :
                   WrapLine_nostop(w, wrap, j + 1, next_layout,
                                   w.is_breaking[j + 1], sols))))

\* blocks.py WrapBlock.DoOptLayout, lines 285-311: the candidates for
\* wrap_solutions[i], breaking after element j, j+1, ... (elements counted
\* from 1 here; w holds the layouts and parameters of the call).
RECURSIVE WrapLine(_, _, _, _, _, _)
WrapLine(w, wrap, j, line_layout, last_breaking, solutions_i) ==
  IF j > w.n - 1
  THEN Append(solutions_i, WithRestOfLine(line_layout, w.rest_of_line))
  ELSE Let(VSumSolution(<<line_layout, wrap[j + 1]>>), LAMBDA full_soln :
       Let(Append(solutions_i,
                  PlusConst(full_soln,
                            w.o.break_cost * w.break_mult
                              + w.o.late_pack_cost * (w.n - (j - 1)))),
           LAMBDA sols :
             IF last_breaking THEN sols
             ELSE Let(WithRestOfLine(line_layout,
                        WithRestOfLine(w.sep_layout, w.elt_layouts[j + 1])),
                      LAMBDA next_layout :
                        WrapLine(w, wrap, j + 1, next_layout,
                                 w.is_breaking[j + 1], sols))))

\* blocks.py WrapBlock.DoOptLayout, lines 267-312: wrap_solutions filled from
\* the last element to the first.
RECURSIVE WrapSolutions(_, _, _)
WrapSolutions(w, i, wrap) ==
  IF i = 0 THEN wrap
  ELSE Let(IF w.prefix_layout = None THEN w.elt_layouts[i]
           ELSE WithRestOfLine(w.prefix_layout, w.elt_layouts[i]),
           LAMBDA line_layout :
       Let(WrapLine(w, wrap, i, line_layout, w.is_breaking[i], <<>>),
           LAMBDA solutions_i :
       Let(Put(wrap, i, MinSolution(solutions_i)), LAMBDA wrap2 :
         WrapSolutions(w, i - 1, wrap2))))

\* blocks.py WrapBlock.DoOptLayout
WrapDoOptLayout(h, blk, rest_of_line, o) ==
  Let(EachOptLayout(h, blk.elements, 1,
                    [i \in DOMAIN blk.elements |-> None], o, <<>>),
      LAMBDA r :
  Let([n |-> Len(blk.elements),
            sep_layout |-> TextDoOptLayout(blk.sep, None, o),
            prefix_layout |->
              IF blk.prefix # NoneStr /\ blk.prefix # ""
              THEN TextDoOptLayout(blk.prefix, None, o) ELSE None,
            elt_layouts |-> r.solns,
            is_breaking |-> [i \in DOMAIN blk.elements |->
                               h.blocks[blk.elements[i]].is_breaking],
            break_mult |-> blk.break_mult,
            rest_of_line |-> rest_of_line,
            o |-> o],
      LAMBDA w :
        [h |-> r.h,
         s |-> IF r.h.err THEN None
               ELSE WrapSolutions(w, w.n, <<>>)[1]]))

\* extras.py CompositeShortcutMixin.DoOptLayout and
\* JoinedLineBlock.CompositeOptLayout: the joiner TextBlock and the LineBlock
\* are temporaries, gone when the call returns.
JoinedLineDoOptLayout(h, blk, rest_of_line, o) ==
  IF Len(blk.elements) = 1
  THEN OptLayout(h, blk.elements[1], rest_of_line, o)
  ELSE LET n0    == Len(h.blocks)
           heap1 == Append(h.blocks, TextBlock(blk.joiner, FALSE))
           heap2 == Append(heap1,
                      LineBlock(heap1, Joined(heap1, blk.elements, n0 + 1,
                                              blk.join_breaking, 1)))
       IN Let(OptLayout([h EXCEPT !.blocks = heap2,
                                  !.log = @ \o << <<>>, <<>> >>],
                        n0 + 2, rest_of_line, o),
              LAMBDA r :
                [h |-> [r.h EXCEPT !.blocks = SubSeq(@, 1, n0),
                                   !.log = SubSeq(@, 1, n0)],
                 s |-> r.s])

\* The block-specific DoOptLayout, dispatched on the block's class; the
\* invocation is recorded, and a Solution object created by it gets its
\* identity.
DoOptLayout(h, b, rest_of_line, o) ==
  LET blk == h.blocks[b]
      h1  == [h EXCEPT !.log[b] =
                Append(@, [key |-> KeyOf(rest_of_line), o |-> o])]
  IN Let(CASE blk.kind = "Text" ->
                  [h |-> h1, s |-> TextDoOptLayout(blk.text, rest_of_line, o)]
             [] blk.kind = "Verb" ->
                  LET v == VerbDoOptLayout(blk.lines, blk.first_nl,
                                           rest_of_line, o)
                  IN [h |-> [h1 EXCEPT !.err = ~v.ok], s |-> v.s]
             [] blk.kind = "Line" ->
                  LineDoOptLayout(h1, blk.elements, rest_of_line, o)
             [] blk.kind = "Choice" ->
                  ChoiceDoOptLayout(h1, blk.elements, rest_of_line, o)
             [] blk.kind = "Stack" ->
                  StackDoOptLayout(h1, blk.elements, blk.break_mult,
                                   rest_of_line, o)
             [] blk.kind = "Wrap" ->
                  WrapDoOptLayout(h1, blk, rest_of_line, o)
             [] blk.kind = "JoinedLine" ->
                  JoinedLineDoOptLayout(h1, blk, rest_of_line, o),
         LAMBDA r :
           IF r.h.err THEN [h |-> r.h, s |-> None]
           ELSE IF r.s.id # 0 THEN r
           ELSE [h |-> [r.h EXCEPT !.nid = @ + 1],
                 s |-> [r.s EXCEPT !.id = r.h.nid + 1]])

\* ------------------------------------------------------------ input sets
Texts == {"", "a", "bb"}

\* Further texts rendered on their own only.
LoneTexts == {" ", "ccc"}

VerbLines == {<<"x", "y">>}

BreakMults == {1, 2}

Seps == {" "}

Prefixes == {NoneStr, ">"}

Joiners == {" "}

\* Element lists handed to a composite constructor: blocks of the heap and
\* values that are not blocks.
ElemSeqs(heap) ==
  UNION {[1..n -> (DOMAIN heap) \cup {NotABlock}] : n \in 0..MaxElems}

\* Options values used for layout: roomy margins, tight margins, equal
\* margins, and zero margins with free line breaks.
Roomy == Options(6, 1, 8, 10, 2, 1)

Tight == Options(0, 1, 2, 10, 2, 1)

RenderOptions == {Roomy, Tight, Options(2, 1, 2, 10, 2, 0), Options(0, 1, 0, 3, 0, 0)}

\* Field values tried when constructing Options.
OptionValues == {-1, 0, 1}

NoOptions == Options(0, 0, 0, 0, 0, 0)

\* Every Solution stored in some memo of the heap.
Solutions(heap) ==
  UNION {Range(heap[b].layout_cache) : b \in DOMAIN heap}

\* The composite blocks that can be constructed over elements of a heap.
Composites(heap, elems) ==
  {LineBlock(heap, elems), ChoiceBlock(heap, elems)}
    \cup {StackBlock(heap, elems, bm) : bm \in BreakMults}
    \cup {WrapBlock(heap, elems, sep, 1, prefix) :
            sep \in Seps, prefix \in Prefixes}
    \cup {JoinedLineBlock(heap, elems, joiner, jb) :
            joiner \in Joiners, jb \in BOOLEAN}

\* The heaps left by constructing a block tree over the leaves E: the leaves
\* alone; one composite over them; Choice([JoinedLine(E), Stack(E)]) as in
\* test_choice_block; and a composite followed by the first leaf in a Line,
\* which hands the composite a continuation.
TreesOver(E) ==
  LET n     == Len(E)
      elems == [i \in 1..n |-> i]
      js    == E \o <<JoinedLineBlock(E, elems, " ", FALSE),
                      StackBlock(E, elems, 1)>>
  IN {E}
       \cup {Append(E, c) : c \in Composites(E, elems)}
       \cup {Append(js, ChoiceBlock(js, <<n + 1, n + 2>>))}
       \cup {Append(Append(E, c),
                    LineBlock(Append(E, c), <<n + 1, 1>>)) :
               c \in Composites(E, elems)}

Leaves ==
  {TextBlock(t, br) : t \in Texts, br \in BOOLEAN}
    \cup {VerbBlock(ln, br, FALSE) : ln \in VerbLines, br \in BOOLEAN}

\* Leaves of the heaps on which call sequences are explored.
MemoLeaves == {TextBlock("a", FALSE), TextBlock("bb", FALSE)}

Heaps(leaves) ==
  UNION {TreesOver(E) : E \in UNION {[1..n -> leaves] : n \in 1..MaxLeaves}}

\* ------------------------------------------------------------- operations
\* The outcome of an operation: what was called, on which block, with which
\* arguments, the error raised ("ok": none) and what it returned.
Result(op, b, elems, o, rest, err, out, soln, hit) ==
  [op |-> op, b |-> b, elems |-> elems, o |-> o, rest |-> rest, err |-> err,
   out |-> out, soln |-> soln, hit |-> hit]

NoResult == Result("init", 0, <<>>, NoOptions, None, "ok", "", None, FALSE)

\* No block constructed yet.
Init ==
  /\ blocks = <<>>
  /\ nid = 0
  /\ doLog = <<>>
  /\ ncalls = 0
  /\ last = NoResult

\* A block tree has been constructed; nothing has been laid out.
InitHeap(heaps) ==
  /\ blocks \in heaps
  /\ nid = 0
  /\ doLog = [b \in DOMAIN blocks |-> <<>>]
  /\ ncalls = 0
  /\ last = NoResult

\* A constructor call: the new object joins the heap unless __init__ raised.
Construct(op, elems, err, blk) ==
  /\ err = "ok" => Len(blocks) < MaxBlocks
  /\ blocks' = IF err = "ok" THEN Append(blocks, blk) ELSE blocks
  /\ doLog' = IF err = "ok" THEN Append(doLog, <<>>) ELSE doLog
  /\ last' = Result(op, IF err = "ok" THEN Len(blocks) + 1 ELSE 0, elems,
                    NoOptions, None, err, "", None, FALSE)
  /\ UNCHANGED <<nid, ncalls>>

NewTextBlock ==
  \E text \in Texts, is_breaking \in BOOLEAN :
    Construct("TextBlock", <<>>, "ok", TextBlock(text, is_breaking))

NewVerbBlock ==
  \E lines \in VerbLines, is_breaking \in BOOLEAN, first_nl \in BOOLEAN :
    Construct("VerbBlock", <<>>, "ok", VerbBlock(lines, is_breaking, first_nl))

NewLineBlock ==
  \E elems \in ElemSeqs(blocks) :
    Construct("LineBlock", elems, CompositeCheck(blocks, elems),
              LineBlock(blocks, elems))

NewChoiceBlock ==
  \E elems \in ElemSeqs(blocks) :
    Construct("ChoiceBlock", elems, CompositeCheck(blocks, elems),
              ChoiceBlock(blocks, elems))

NewStackBlock ==
  \E elems \in ElemSeqs(blocks), break_mult \in BreakMults :
    Construct("StackBlock", elems, CompositeCheck(blocks, elems),
              StackBlock(blocks, elems, break_mult))

NewWrapBlock ==
  \E elems \in ElemSeqs(blocks), sep \in Seps, prefix \in Prefixes :
    Construct("WrapBlock", elems, CompositeCheck(blocks, elems),
              WrapBlock(blocks, elems, sep, 1, prefix))

NewJoinedLineBlock ==
  \E elems \in ElemSeqs(blocks), joiner \in Joiners,
     join_breaking \in BOOLEAN :
    Construct("JoinedLineBlock", elems, CompositeCheck(blocks, elems),
              JoinedLineBlock(blocks, elems, joiner, join_breaking))

\* base.py Options.__post_init__: the value exists only if Check passes
\* (last.elems: the arguments; last.o: the value constructed, NoOptions when
\* the constructor raised).
NewOptions ==
  \E m0 \in OptionValues, c0 \in OptionValues, m1 \in OptionValues,
     c1 \in OptionValues, bc \in OptionValues, lp \in OptionValues :
    LET o == Options(m0, c0, m1, c1, bc, lp)
    IN /\ last' = Result("Options", 0, <<m0, c0, m1, c1, bc, lp>>,
                         IF Check(o) = "ok" THEN o ELSE NoOptions, None,
                         IF Check(o) = "ok" THEN "ok"
                         ELSE "ValueError:" \o Check(o),
                         "", None, FALSE)
       /\ UNCHANGED <<blocks, nid, doLog, ncalls>>

\* A public call block.OptLayout(rest_of_line, options); Render prints the
\* first layout of the result (base.py LayoutBlock.PrintOn).
CallOptLayout(op, b, rest_of_line, o) ==
  \E r \in {OptLayout(Ctx(blocks, nid, doLog), b, rest_of_line, o)} :
     /\ Check(o) = "ok"
     /\ blocks' = r.h.blocks
     /\ nid' = r.h.nid
     /\ doLog' = r.h.log
     /\ ncalls' = ncalls + 1
     /\ last' = Result(op, b, <<>>, o, rest_of_line,
                       IF r.h.err THEN "InternalInvariant" ELSE "ok",
                       IF op = "Render" /\ ~r.h.err
                       THEN PrintLayout(r.s.layouts[1]) ELSE "",
                       r.s,
                       KeyOf(rest_of_line) \in DOMAIN blocks[b].layout_cache)

\* base.py LayoutBlock.Render on a block of a tree not laid out before.
RenderFresh ==
  /\ ncalls = 0
  /\ \E b \in DOMAIN blocks, o \in RenderOptions :
       CallOptLayout("Render", b, None, o)

\* base.py LayoutBlock.Render, any time.
Render ==
  /\ ncalls < MaxCalls
  /\ \E b \in DOMAIN blocks, o \in {Roomy, Tight} :
       CallOptLayout("Render", b, None, o)

\* base.py LayoutBlock.OptLayout called with a continuation that some block
\* returned before.
DoCallOptLayout ==
  /\ ncalls < MaxCalls
  /\ \E b \in DOMAIN blocks, o \in {Roomy, Tight},
        rest_of_line \in Solutions(blocks) :
       CallOptLayout("OptLayout", b, rest_of_line, o)

\* Block construction.
NextNew ==
  \/ NewTextBlock
  \/ NewVerbBlock
  \/ NewLineBlock
  \/ NewChoiceBlock
  \/ NewStackBlock
  \/ NewWrapBlock
  \/ NewJoinedLineBlock

SpecNew == Init /\ [][NextNew]_vars

\* Options construction.
NextOptions == NewOptions

SpecOptions == Init /\ [][NextOptions]_vars

\* One Render of a freshly constructed tree.
InitRender ==
  InitHeap(Heaps(Leaves)
             \cup {<<TextBlock(t, br)>> : t \in LoneTexts, br \in BOOLEAN})

NextRender == RenderFresh

SpecRender == InitRender /\ [][NextRender]_vars

\* Sequences of Render / OptLayout calls on the same block objects.
InitMemo == InitHeap(Heaps(MemoLeaves))

NextMemo == Render \/ DoCallOptLayout

SpecMemo == InitMemo /\ [][NextMemo]_vars

\* blocks.py LineBlock.extended: a new block of the receiver's class over the
\* receiver's elements followed by new_elements.
LineBlock_extended(heap, self, new_elements) ==
  LineBlock(heap, heap[self].elements \o new_elements)

\* blocks.py StackBlock.extended: break_mult is handed on.
StackBlock_extended(heap, self, new_elements) ==
  StackBlock(heap, heap[self].elements \o new_elements,
             heap[self].break_mult)

\* blocks.py WrapBlock.extended: break_mult and prefix are handed on; sep is
\* not among the arguments, so the constructor's default " " applies.
WrapBlock_extended(heap, self, new_elements) ==
  WrapBlock(heap, heap[self].elements \o new_elements, " ",
            heap[self].break_mult, heap[self].prefix)

\* extras.py JoinedLineBlock.extended: joiner is handed on; join_breaking is
\* not among the arguments, so the constructor's default False applies.
JoinedLineBlock_extended(heap, self, new_elements) ==
  JoinedLineBlock(heap, heap[self].elements \o new_elements,
                  heap[self].joiner, FALSE)

\* The classes that define extended.
ExtendedKinds == {"Line", "Stack", "Wrap", "JoinedLine"}

\* block.extended(new_elements), by the class of the receiver.
extended(heap, self, new_elements) ==
  CASE heap[self].kind = "Line" ->
         LineBlock_extended(heap, self, new_elements)
    [] heap[self].kind = "Stack" ->
         StackBlock_extended(heap, self, new_elements)
    [] heap[self].kind = "Wrap" ->
         WrapBlock_extended(heap, self, new_elements)
    [] heap[self].kind = "JoinedLine" ->
         JoinedLineBlock_extended(heap, self, new_elements)

\* Constructor arguments of the blocks that are extended: separators and
\* joiners besides the defaults.
ExtendedSeps == {" ", ", "}

ExtendedJoiners == {" ", ","}

ExtendedLeaves == {TextBlock("a", FALSE), TextBlock("bb", TRUE)}

\* The heaps left by constructing one composite that defines extended over
\* one or two leaves.
ExtendedHeaps ==
  UNION {LET elems == [i \in DOMAIN E |-> i]
         IN {Append(E, LineBlock(E, elems))}
              \cup {Append(E, StackBlock(E, elems, bm)) : bm \in BreakMults}
              \cup {Append(E, WrapBlock(E, elems, sep, bm, prefix)) :
                      sep \in ExtendedSeps, bm \in BreakMults,
                      prefix \in Prefixes}
              \cup {Append(E, JoinedLineBlock(E, elems, joiner, jb)) :
                      joiner \in ExtendedJoiners, jb \in BOOLEAN} :
           E \in UNION {[1..n -> ExtendedLeaves] : n \in 1..MaxLeaves}}

\* A call self.extended(new_elements): the constructor of the receiver's
\* class runs on the chained elements and may raise (last.b: the receiver;
\* the block returned is the newest block of the heap).
DoExtended ==
  \E self \in DOMAIN blocks :
    \E new_elements \in ElemSeqs(blocks) :
      LET elems == blocks[self].elements \o new_elements
          err   == CompositeCheck(blocks, elems)
      IN /\ blocks[self].kind \in ExtendedKinds
         /\ Cardinality({b \in DOMAIN blocks :
                           blocks[b].kind \in ExtendedKinds}) <= MaxExtended
         /\ blocks' = IF err = "ok"
                      THEN Append(blocks, extended(blocks, self, new_elements))
                      ELSE blocks
         /\ doLog' = IF err = "ok" THEN Append(doLog, <<>>) ELSE doLog
         /\ last' = Result("extended", self, new_elements, NoOptions, None,
                           err, "", None, FALSE)
         /\ UNCHANGED <<nid, ncalls>>

\* A first Render and extended calls on a constructed composite.
InitExtended == InitHeap(ExtendedHeaps)

NextExtended == RenderFresh \/ DoExtended

SpecExtended == InitExtended /\ [][NextExtended]_vars

\* ------------------------------------------------------------- properties
\* The solutions the children of composite b return for continuation key.
ChildSolutions(b, key) ==
  [i \in DOMAIN blocks[b].elements |->
     blocks[blocks[b].elements[i]].layout_cache[key]]

\* C1: for every ChoiceBlock, every continuation it was laid out against and
\* every start column k, the value at k of the Choice's solution is the least
\* of the values at k of its children's solutions for that continuation, and
\* the layout at k is that of the first child attaining it.
C1_ChoiceIsPointwiseMin ==
  \A b \in DOMAIN blocks :
    blocks[b].kind = "Choice" =>
      \A key \in DOMAIN blocks[b].layout_cache :
        LET s    == blocks[b].layout_cache[key]
            kids == ChildSolutions(b, key)
        IN \A k \in 0..MaxCol :
             LET least == SetMin({ValueAt(kids[i], k) : i \in DOMAIN kids})
                 first == SetMin({i \in DOMAIN kids :
                                    ValueAt(kids[i], k) = least})
             IN /\ ValueAt(s, k) = least
                /\ LayoutAt(s, k) = LayoutAt(kids[first], k)

\* A Choice has been laid out whose first child is strictly cheaper at one
\* column and whose second child is strictly cheaper at another.
C1_Witness ==
  \E b \in DOMAIN blocks :
    /\ blocks[b].kind = "Choice"
    /\ Len(blocks[b].elements) = 2
    /\ \E key \in DOMAIN blocks[b].layout_cache :
         LET kids == ChildSolutions(b, key)
         IN /\ \E k \in 0..MaxCol : ValueAt(kids[1], k) < ValueAt(kids[2], k)
            /\ \E k \in 0..MaxCol : ValueAt(kids[2], k) < ValueAt(kids[1], k)

\* The continuations DoOptLayout has been invoked with on block b.
LoggedKeys(log, b) == [i \in DOMAIN log[b] |-> log[b][i].key]

\* C2: over any sequence of OptLayout / Render calls, DoOptLayout runs at
\* most once per block and continuation (None is a key of its own); a call
\* whose continuation is not in the memo runs DoOptLayout once and stores what
\* it returns; a call whose continuation is in the memo returns the stored
\* solution and invokes no DoOptLayout on any block; and no memo entry is
\* ever replaced or removed.
C2_MemoAtMostOnce ==
  [][/\ DOMAIN blocks' = DOMAIN blocks
     /\ \A b \in DOMAIN blocks :
          /\ \A key \in DOMAIN blocks[b].layout_cache :
               /\ key \in DOMAIN blocks'[b].layout_cache
               /\ blocks'[b].layout_cache[key] = blocks[b].layout_cache[key]
          /\ \A i, j \in DOMAIN doLog'[b] :
               doLog'[b][i].key = doLog'[b][j].key => i = j
          /\ Range(LoggedKeys(doLog', b)) = DOMAIN blocks'[b].layout_cache
     /\ LET b   == last'.b
            key == KeyOf(last'.rest)
        IN IF key \in DOMAIN blocks[b].layout_cache
           THEN /\ last'.hit
                /\ last'.soln = blocks[b].layout_cache[key]
                /\ doLog' = doLog
                /\ blocks' = blocks
                /\ nid' = nid
           ELSE /\ ~last'.hit
                /\ doLog'[b] = Append(doLog[b], [key |-> key, o |-> last'.o])
                /\ blocks'[b].layout_cache[key] = last'.soln
    ]_vars

\* A call has been answered from the memo.
C2_Witness == last.op \in {"Render", "OptLayout"} /\ last.hit

\* spec 3.4, the invariants of a Solution.
WellFormed(s) ==
  /\ Len(s.knots) >= 1
  /\ Len(s.spans) = Len(s.knots)
  /\ Len(s.intercepts) = Len(s.knots)
  /\ Len(s.gradients) = Len(s.knots)
  /\ Len(s.layouts) = Len(s.knots)
  /\ s.knots[1] = 0
  /\ \A i \in 1..(Len(s.knots) - 1) :
       /\ s.knots[i] < s.knots[i + 1]
       /\ s.gradients[i] <= s.gradients[i + 1]
       /\ s.intercepts[i + 1] =
            s.intercepts[i] + s.gradients[i] * (s.knots[i + 1] - s.knots[i])

\* C3: every Solution returned by OptLayout, for every block kind, every
\* continuation and every valid Options value (margin_0 = margin_1 and
\* margin_0 = 0 included), has five sequences of equal length, knot[0] = 0,
\* strictly increasing knots, non-decreasing slopes and a cost continuous
\* across knots.
C3_SolutionInvariants ==
  \A b \in DOMAIN blocks :
    \A key \in DOMAIN blocks[b].layout_cache :
      WellFormed(blocks[b].layout_cache[key])

\* The elements of block b are all TextBlocks.
AllText(b) ==
  \A i \in DOMAIN blocks[b].elements :
    blocks[blocks[b].elements[i]].kind = "Text"

\* The texts of the elements of b from the i-th on, each followed by a line
\* break if it is breaking and by joiner otherwise, nothing after the last.
RECURSIVE JoinedText(_, _, _)
JoinedText(b, joiner, i) ==
  LET e == blocks[blocks[b].elements[i]]
  IN IF i = Len(blocks[b].elements) THEN e.text
     ELSE e.text \o (IF e.is_breaking THEN "\n" ELSE joiner)
                 \o JoinedText(b, joiner, i + 1)

RECURSIVE ValuesAtZero(_, _)
ValuesAtZero(solns, i) ==
  IF i > Len(solns) THEN 0
  ELSE ValueAt(solns[i], 0) + ValuesAtZero(solns, i + 1)

\* The layouts at column 0 of the solutions from the i-th on, each after a
\* line break.
RECURSIVE LinesBelow(_, _)
LinesBelow(solns, i) ==
  IF i > Len(solns) THEN <<>>
  ELSE <<NewLine(0)>> \o LayoutAt(solns[i], 0) \o LinesBelow(solns, i + 1)

\* The Options of the DoOptLayout invocation on b for continuation key.
LoggedOptions(b, key) ==
  (CHOOSE e \in Range(doLog[b]) : e.key = key).o

\* C5: the solution of a StackBlock with n children for a continuation is
\* the vertical sum of its children's solutions, the last child's for that
\* continuation and the others' for None, plus break_cost * break_mult *
\* (n - 1): the value at k is the first child's value at k plus the later
\* children's values at column 0 plus that constant, the span is the last
\* child's, and the layout is the children's layouts one per line.  A root
\* StackBlock of n Text children renders as the n texts separated by one
\* line break each, whatever the margins.
C5_StackIsVerticalSum ==
  /\ \A b \in DOMAIN blocks :
       blocks[b].kind = "Stack" =>
         \A key \in DOMAIN blocks[b].layout_cache :
           LET s     == blocks[b].layout_cache[key]
               n     == Len(blocks[b].elements)
               o     == LoggedOptions(b, key)
               kids  == [i \in 1..n |->
                           blocks[blocks[b].elements[i]].layout_cache[
                             IF i < n THEN KeyOf(None) ELSE key]]
           IN \A k \in 0..MaxCol :
                /\ ValueAt(s, k) =
                     ValueAt(kids[1], k) + ValuesAtZero(kids, 2)
                       + o.break_cost * blocks[b].break_mult * (n - 1)
                /\ SpanAt(s, k) =
                     IF n = 1 THEN SpanAt(kids[1], k) ELSE SpanAt(kids[n], 0)
                /\ LayoutAt(s, k) = LayoutAt(kids[1], k) \o LinesBelow(kids, 2)
  /\ (/\ last.op = "Render"
      /\ blocks[last.b].kind = "Stack"
      /\ AllText(last.b))
       => /\ last.err = "ok"
          /\ last.out = JoinedText(
               last.b, "\n", 1)

\* A StackBlock of two Text children with break_mult 2 has been rendered
\* under margins the first text crosses.
C5_Witness ==
  /\ last.op = "Render"
  /\ blocks[last.b].kind = "Stack"
  /\ blocks[last.b].break_mult = 2
  /\ Len(blocks[last.b].elements) = 2
  /\ AllText(last.b)
  /\ last.o.margin_1 = 2
  /\ last.out = "bb\na"

\* C6: rendering a lone TextBlock returns exactly its text, for every text,
\* either value of is_breaking and every valid Options value.
C6_TextRender ==
  (last.op = "Render" /\ blocks[last.b].kind = "Text")
    => /\ last.err = "ok"
       /\ last.out = blocks[last.b].text

\* A breaking TextBlock at least margin_1 long has been rendered.
C6_Witness ==
  /\ last.op = "Render"
  /\ blocks[last.b].kind = "Text"
  /\ blocks[last.b].is_breaking
  /\ Len(blocks[last.b].text) >= last.o.margin_1
  /\ last.out = "ccc"

\* The elements of block b are non-breaking TextBlocks.
PlainText(b) ==
  /\ AllText(b)
  /\ \A i \in DOMAIN blocks[b].elements :
       ~blocks[blocks[b].elements[i]].is_breaking

\* Block b is a WrapBlock of non-breaking Text elements, or a
\* Choice([JoinedLine(E), Stack(E)]) over non-breaking Text elements E.
HasSingleLine(b) ==
  \/ blocks[b].kind = "Wrap" /\ PlainText(b)
  \/ /\ blocks[b].kind = "Choice"
     /\ Len(blocks[b].elements) = 2
     /\ blocks[blocks[b].elements[1]].kind = "JoinedLine"
     /\ blocks[blocks[b].elements[2]].kind = "Stack"
     /\ blocks[blocks[b].elements[1]].elements =
          blocks[blocks[b].elements[2]].elements
     /\ PlainText(blocks[b].elements[1])

\* The single-line layout of such a block.
SingleLine(b) ==
  IF blocks[b].kind = "Wrap"
  THEN (IF blocks[b].prefix = NoneStr THEN "" ELSE blocks[b].prefix)
         \o JoinedText(b, blocks[b].sep, 1)
  ELSE JoinedText(blocks[b].elements[1],
                  blocks[blocks[b].elements[1]].joiner, 1)

\* C7: when a block tree admits a single-line layout that crosses neither
\* margin and every line break costs more than 0, Render returns that
\* single line.
C7_SingleLinePreferred ==
  (/\ last.op = "Render"
   /\ HasSingleLine(last.b)
   /\ last.o.break_cost > 0
   /\ Len(SingleLine(last.b)) <= last.o.margin_0)
    => last.out = SingleLine(last.b)

\* The constructors of the composite block kinds.
CompositeOps ==
  {"LineBlock", "ChoiceBlock", "StackBlock", "WrapBlock", "JoinedLineBlock"}

\* C8: constructing a composite block of any kind with no elements fails
\* with BlockUsageError, and no block object results.
C8_EmptyComposite ==
  [][(last'.op \in CompositeOps /\ last'.elems = <<>>)
       => /\ last'.err = "BlockUsageError"
          /\ last'.b = 0
          /\ blocks' = blocks]_vars

\* A composite constructor has been called with no elements, on a heap that
\* holds a block.
C8_Witness ==
  /\ last.op = "WrapBlock"
  /\ last.elems = <<>>
  /\ last.err = "BlockUsageError"
  /\ blocks # <<>>

\* The element list has at least one element and one that is not a block.
HasNonBlock(elems) ==
  elems # <<>> /\ \E i \in DOMAIN elems : elems[i] \notin DOMAIN blocks

\* C9, as claimed: constructing a composite block with a non-empty element
\* list in which some element is not a block fails with BlockUsageError.
C9_NonBlockIsUsageError ==
  (last.op \in CompositeOps /\ HasNonBlock(last.elems))
    => last.err = "BlockUsageError"

\* C9, amended: such a construction fails with TypeError, and no block
\* object results; BlockUsageError is raised for an empty list only.
C9_NonBlockIsTypeError ==
  [][(last'.op \in CompositeOps /\ last'.elems # <<>>)
       => IF \E i \in DOMAIN last'.elems : last'.elems[i] \notin DOMAIN blocks
          THEN /\ last'.err = "TypeError"
               /\ last'.b = 0
               /\ blocks' = blocks
          ELSE last'.err # "TypeError"]_vars

\* A composite constructor has been handed a block followed by a non-block.
C9_Witness ==
  /\ last.op \in CompositeOps
  /\ last.elems = <<1, NotABlock>>
  /\ blocks # <<>>
  /\ last.err = "TypeError"

\* C10: constructing Options succeeds exactly when margin_0 >= 0, margin_1
\* >= margin_0 and the four costs are >= 0; otherwise it raises an error that
\* names an option whose condition fails, and no Options value results.
C10_OptionsValid ==
  last.op = "Options" =>
    LET a   == last.elems
        bad == {f \in {"margin_0", "margin_1", "margin_0_cost",
                       "margin_1_cost", "break_cost", "late_pack_cost"} :
                  \/ f = "margin_0" /\ a[1] < 0
                  \/ f = "margin_0_cost" /\ a[2] < 0
                  \/ f = "margin_1" /\ a[3] < a[1]
                  \/ f = "margin_1_cost" /\ a[4] < 0
                  \/ f = "break_cost" /\ a[5] < 0
                  \/ f = "late_pack_cost" /\ a[6] < 0}
    IN IF bad = {}
       THEN /\ last.err = "ok"
            /\ last.o = Options(a[1], a[2], a[3], a[4], a[5], a[6])
       ELSE /\ \E f \in bad : last.err = "ValueError:" \o f
            /\ last.o = NoOptions

\* Options has been constructed with margin_1 = margin_0 = 1 and costs 0.
C10_Witness ==
  /\ last.op = "Options"
  /\ last.elems = <<1, 0, 1, 0, 0, 0>>
  /\ last.err = "ok"

\* The Solution object whose identity is key (None for the key of None).
SolutionOf(key) ==
  IF key = KeyOf(None) THEN None
  ELSE CHOOSE s \in Solutions(blocks) : s.id = key

\* The cost of the pieces from the i-th on laid side by side from column k,
\* each starting where the one before it ends.
RECURSIVE PiecesCost(_, _, _)
PiecesCost(pieces, i, k) ==
  IF i > Len(pieces) THEN 0
  ELSE ValueAt(pieces[i], k)
         + PiecesCost(pieces, i + 1, k + SpanAt(pieces[i], k))

\* The pieces of one line of WrapBlock b holding elements from..to: the
\* prefix if any, the elements' solutions with the separator between them,
\* and the continuation rest (None on every line but the last).
WrapLinePieces(b, o, from, to, rest) ==
  LET elts == ChildSolutions(b, KeyOf(None))
      sep  == TextDoOptLayout(blocks[b].sep, None, o)
      pre  == IF blocks[b].prefix # NoneStr /\ blocks[b].prefix # ""
              THEN <<TextDoOptLayout(blocks[b].prefix, None, o)>> ELSE <<>>
      body == [i \in 1..(2 * (to - from) + 1) |->
                 IF i % 2 = 1 THEN elts[from + (i - 1) \div 2] ELSE sep]
  IN pre \o body \o (IF rest = None THEN <<>> ELSE <<rest>>)

\* The cost at start column k of laying out the elements from..n of b with a
\* line break after exactly the elements in breaks.
RECURSIVE SplitCost(_, _, _, _, _, _)
SplitCost(b, o, from, breaks, rest, k) ==
  LET n == Len(blocks[b].elements)
  IN IF \E j \in breaks : j >= from
     THEN LET j == SetMin({x \in breaks : x >= from})
          IN PiecesCost(WrapLinePieces(b, o, from, j, None), 1, k)
               + o.break_cost * blocks[b].break_mult
               + o.late_pack_cost * (n - (j - 1))
               + SplitCost(b, o, j + 1, breaks, rest, 0)
     ELSE PiecesCost(WrapLinePieces(b, o, from, n, rest), 1, k)

\* The ways to split the elements of b into lines: the sets of elements a
\* line break follows, which hold every breaking element but the last.
WrapSplits(b) ==
  LET n == Len(blocks[b].elements)
  IN {B \in SUBSET (1..(n - 1)) :
        \A j \in 1..(n - 1) :
          blocks[blocks[b].elements[j]].is_breaking => j \in B}

C12_TextSolution ==
  \A b \in DOMAIN blocks :
    (blocks[b].kind = "Text" /\ KeyOf(None) \in DOMAIN blocks[b].layout_cache)
      => LET s    == blocks[b].layout_cache[KeyOf(None)]
             o    == LoggedOptions(b, KeyOf(None))
             span == Len(blocks[b].text)
             m0   == o.margin_0
             m1   == o.margin_1
             c0   == o.margin_0_cost
             c1   == o.margin_1_cost
         IN /\ \A i \in DOMAIN s.knots :
                 /\ s.spans[i] = span
                 /\ s.layouts[i] = <<String(blocks[b].text)>>
            /\ IF span >= m1
               THEN /\ s.knots = <<0>>
                    /\ s.intercepts = <<(span - m0) * c0 + (span - m1) * c1>>
                    /\ s.gradients = <<c0 + c1>>
               ELSE IF span >= m0
               THEN /\ s.knots = <<0, m1 - span>>
                    /\ s.intercepts = <<(span - m0) * c0, (m1 - m0) * c0>>
                    /\ s.gradients = <<c0, c0 + c1>>
               ELSE /\ s.knots = <<0, m0 - span, m1 - span>>
                    /\ s.intercepts = <<0, 0, (m1 - m0) * c0>>
                    /\ s.gradients = <<0, c0, c0 + c1>>

\* The element-lines of LineBlock b as the claim states them: a line ends
\* after every breaking child but the last; the result lists, per line, the
\* positions of its first and last child.
LineBounds(b) ==
  LET n    == Len(blocks[b].elements)
      ends == {j \in 1..(n - 1) : blocks[blocks[b].elements[j]].is_breaking}
                 \cup {n}
      es   == SortedSeq(ends)
  IN [i \in DOMAIN es |->
        [from |-> IF i = 1 THEN 1 ELSE es[i - 1] + 1, to |-> es[i]]]

\* Stands for the solution of a child that was not solved.
NoSolution == [None EXCEPT !.id = -1]

\* The solution the child at position j of b returned within its element
\* line from..to, given that the line's last child was solved against rest
\* and every other child against the solution of the child to its right;
\* NoSolution if a child was not solved against that continuation.
RECURSIVE LineChain(_, _, _, _)
LineChain(b, j, to, rest) ==
  LET right == IF j = to THEN rest ELSE LineChain(b, j + 1, to, rest)
      cache == blocks[blocks[b].elements[j]].layout_cache
  IN IF right = NoSolution \/ KeyOf(right) \notin DOMAIN cache
     THEN NoSolution
     ELSE cache[KeyOf(right)]

TextsTellBreaking ==
  /\ \A b \in DOMAIN blocks :
       blocks[b].kind \in {"Text", "Line", "Stack", "Choice", "Wrap"}
  /\ \A b, c \in DOMAIN blocks :
       (blocks[b].kind = "Text" /\ blocks[c].kind = "Text"
          /\ blocks[b].text = blocks[c].text)
         => blocks[b].is_breaking = blocks[c].is_breaking

\* The non-empty texts of the breaking Text leaves.
BreakingTexts ==
  {blocks[b].text : b \in {c \in DOMAIN blocks :
                             /\ blocks[c].kind = "Text"
                             /\ blocks[c].is_breaking
                             /\ blocks[c].text # ""}}

\* In the layout, every text of a breaking leaf that further text follows is
\* immediately followed by a line break.
BreaksHonoured(layout) ==
  \A i \in DOMAIN layout :
    (/\ layout[i].t = "String"
     /\ layout[i].s \in BreakingTexts
     /\ \E j \in (i + 1)..Len(layout) :
          layout[j].t = "String" /\ layout[j].s # "")
      => layout[i + 1].t = "NewLine"

\* C14: in the rendered output of any tree of Text, Line, Stack, Choice and
\* Wrap blocks, every breaking Text leaf whose text is emitted and followed
\* by further text is immediately followed by a line break, a ChoiceBlock
\* whose children differ in is_breaking included.
C14_BreakAfterBreaking ==
  (last.op = "Render" /\ last.err = "ok" /\ TextsTellBreaking)
    => BreaksHonoured(last.soln.layouts[1])


\* The non-empty strings of the leaves below block b, in left-to-right tree
\* order: the text of a Text leaf, every line of a Verb leaf.
RECURSIVE LeafStrings(_)
LeafStrings(b) ==
  LET RECURSIVE Below(_)
      Below(i) ==
        IF i > Len(blocks[b].elements) THEN <<>>
        ELSE LeafStrings(blocks[b].elements[i]) \o Below(i + 1)
  IN CASE blocks[b].kind = "Text" ->
            IF blocks[b].text = "" THEN <<>> ELSE <<blocks[b].text>>
       [] blocks[b].kind = "Verb" -> blocks[b].lines
       [] OTHER -> Below(1)

\* The strings of S that the layout emits, in the order of emission.
RECURSIVE Emitted(_, _)
Emitted(layout, S) ==
  IF layout = <<>> THEN <<>>
  ELSE (IF Head(layout).t = "String" /\ Head(layout).s \in S
        THEN <<Head(layout).s>> ELSE <<>>) \o Emitted(Tail(layout), S)

\* The heap holds Text, Verb, Line, Stack and Wrap blocks only.
NoChoiceNoJoined ==
  \A b \in DOMAIN blocks :
    blocks[b].kind \in {"Text", "Verb", "Line", "Stack", "Wrap"}

\* C15: rendering a tree of Text, Verb, Line, Stack and Wrap blocks emits
\* the string of every Text leaf and every line of every Verb leaf exactly
\* once, in left-to-right tree order, a non-breaking VerbBlock followed by
\* siblings in a LineBlock included.
C15_NoTextDropped ==
  (last.op = "Render" /\ last.err = "ok" /\ NoChoiceNoJoined)
    => Emitted(last.soln.layouts[1], Range(LeafStrings(last.b)))
         = LeafStrings(last.b)


\* The heap as a freshly constructed, structurally identical tree: the same
\* blocks with empty memos.
FreshBlocks ==
  [b \in DOMAIN blocks |-> [blocks[b] EXCEPT !.layout_cache = <<>>]]

\* What Render(o) returns on block b of the freshly constructed tree.
FreshRender(b, o) ==
  PrintLayout(OptLayout(Ctx(FreshBlocks, nid, doLog), b, None, o).s.layouts[1])

\* C16: after any sequence of earlier Render / OptLayout calls on the same
\* block objects, made with any valid Options values, Render(options)
\* returns the string that Render(options) returns on a freshly constructed,
\* structurally identical tree.
C16_RenderDependsOnTreeAndOptions ==
  (last.op = "Render" /\ last.err = "ok")
    => last.out = FreshRender(last.b, last.o)


\* C17: extended(new_elements) on a LineBlock, StackBlock, WrapBlock or
\* JoinedLineBlock returns a new block of the same class whose elements are
\* the original's followed by new_elements and whose break_mult, sep, prefix,
\* joiner and join_breaking equal the original's; the original block's
\* elements, parameters, is_breaking and memo are left unchanged.
C17_ExtendedKeepsParameters ==
  [][(last'.op = "extended" /\ last'.err = "ok" /\ blocks' # blocks)
       => LET self == blocks[last'.b]
              new  == blocks'[Len(blocks')]
          IN /\ Len(blocks') = Len(blocks) + 1
             /\ new.kind = self.kind
             /\ new.elements = self.elements \o last'.elems
             /\ new.break_mult = self.break_mult
             /\ new.sep = self.sep
             /\ new.prefix = self.prefix
             /\ new.joiner = self.joiner
             /\ new.join_breaking = self.join_breaking
             /\ \A b \in DOMAIN blocks : blocks'[b] = blocks[b]]_vars

=============================================================================
